---- MODULE Spec2Model ----
(***************************************************************************)
(* The asynchronous region-processing pipeline of the OCR backend:         *)
(* the session store, the background task processOCRAsync with its         *)
(* concurrency-limited batches, retryWithBackoff / withTimeout around the  *)
(* vision call, the sweep of old sessions and the status endpoint; and the *)
(* browser's hook useOCRProcessing, which submits the regions and polls    *)
(* the status endpoint.                                                    *)
(*                                                                         *)
(* Node runs one callback at a time: every action below is one callback    *)
(* (an HTTP handler, the completion of an awaited I/O operation, a timer)  *)
(* together with all the promise continuations it triggers.               *)
(***************************************************************************)
EXTENDS Integers, Sequences, FiniteSets, TLC

VARIABLES
    heap,              \* the OCRSession objects ever created, by session id
    sessions,          \* the keys of the Map `sessions` (ids still stored)
    task,              \* per session: the state of its processOCRAsync run
    timers,            \* armed setTimeout timers, in the order they were armed
    inflight,          \* generateContent requests sent and not yet answered
    now,               \* Date.now(), in milliseconds
    concurrencyLimit,  \* parseInt(process.env.OCR_CONCURRENCY_LIMIT || '3')
    apiKey,            \* whether process.env.GEMINI_API_KEY is set
    response,          \* the last HTTP response sent
    client             \* the state of the hook useOCRProcessing in the browser

vars == <<heap, sessions, task, timers, inflight, now, concurrencyLimit, apiKey, response,
          client>>

----------------------------------------------------------------------------
(* Bounds of the model *)

MaxSessions == 2
MaxRegions == 2
MaxLimit == 2
MaxClock == 3700000
SplitRegions == 7
SplitLimit == 3
MaxAttemptNumber == 6
MaxIterations == 8
MaxPollFailures == 2

(* Program constants *)

MaxAttempts == 3
BaseDelay == 2000
MaxDelay == 10000
BackoffMultiplier == 2
ApiTimeout == 30000
RetentionMs == 3600000

Min(a, b) == IF a <= b THEN a ELSE b

Range(f) == {f[x] : x \in DOMAIN f}

RECURSIVE Pow(_, _)
Pow(b, e) == IF e <= 0 THEN 1 ELSE b * Pow(b, e - 1)

----------------------------------------------------------------------------
(* Errors.  A message is a sequence of words; `includes` is membership of  *)
(* a marker among the words.  <<>> is the empty (or missing) message, ""   *)
(* the missing code.  retryable is "true", "false" or "absent" (any value  *)
(* that is neither boolean).                                               *)

Includes(message, marker) == marker \in Range(message)

RetryableErrors ==
    {"RESOURCE_EXHAUSTED", "DEADLINE_EXCEEDED", "UNAVAILABLE", "INTERNAL",
     "ECONNRESET", "ETIMEDOUT", "ENOTFOUND"}

GeminiRetryableErrors ==
    {"RESOURCE_EXHAUSTED", "DEADLINE_EXCEEDED", "UNAVAILABLE", "INTERNAL"}

CalculateBackoffDelayFromAttempt(attempt) ==
    Min(BaseDelay * Pow(BackoffMultiplier, attempt), MaxDelay)

CalculateBackoffDelay(attempt) ==
    Min(BaseDelay * Pow(BackoffMultiplier, attempt - 1), MaxDelay)

IsRetryableErrorMarkersFirst(error) ==
    IF \E m \in RetryableErrors : Includes(<<error.code>>, m) \/ Includes(error.message, m)
    THEN TRUE
    ELSE error.retryable = "true"

IsRetryableError(error) ==
    IF error.retryable = "true" THEN TRUE
    ELSE IF error.retryable = "false" THEN FALSE
    ELSE \E m \in RetryableErrors :
            Includes(<<error.code>>, m) \/ Includes(error.message, m)

GeminiCatchUsesBackoffList(err) ==
    [message   |-> IF err.message # <<>> THEN err.message
                   ELSE <<"Failed to process image with Gemini">>,
     code      |-> IF err.code # "" THEN err.code ELSE "GEMINI_ERROR",
     retryable |-> IF err.message = <<>> THEN "absent"
                   ELSE IF \E m \in RetryableErrors : Includes(err.message, m)
                        THEN "true" ELSE "false"]

(* The catch block of GeminiService.processOCR: the object it throws for   *)
(* an underlying error err = [message, code].                              *)
GeminiCatch(err) ==
    [message   |-> IF err.message # <<>> THEN err.message
                   ELSE <<"Failed to process image with Gemini">>,
     code      |-> IF err.code # "" THEN err.code ELSE "GEMINI_ERROR",
     retryable |-> IF err.message = <<>> THEN "absent"
                   ELSE IF \E m \in GeminiRetryableErrors : Includes(err.message, m)
                        THEN "true" ELSE "false"]

(* The rejection of the timer inside GeminiService.processOCR. *)
RequestTimeoutError == [message |-> <<"Request timeout after 30000ms">>, code |-> ""]

(* The rejection of createTimeout. *)
CreateTimeoutError ==
    [message |-> <<"OCR processing timed out">>, code |-> "TIMEOUT", retryable |-> "true"]

(* What the vision backend may answer with a failure. *)
BackendErrors ==
    {[message |-> <<"RESOURCE_EXHAUSTED", "quota">>, code |-> ""],
     [message |-> <<"INVALID_ARGUMENT">>, code |-> "400"]}

----------------------------------------------------------------------------
(* Regions and validateRegions *)

GoodRegion(k) == [id |-> k, x |-> 0, y |-> 0, width |-> 50, height |-> 50]
SmallRegion(k) == [id |-> k, x |-> 0, y |-> 0, width |-> 5, height |-> 5]

(* The region lists a client submits, of at most max regions: ids 1..n in *)
(* order, at most one region too small.                                    *)
RegionLists(max) ==
    {[k \in 1..n |-> GoodRegion(k)] : n \in 0..max}
    \cup {[k \in 1..n |-> IF k = n THEN SmallRegion(k) ELSE GoodRegion(k)] : n \in 1..max}

(* sharp(imagePath).metadata(): dimensions, none, or a failure. *)
Metadatas ==
    {[ok |-> TRUE, width |-> 100, height |-> 100],
     [ok |-> TRUE, width |-> 0, height |-> 0],
     [ok |-> FALSE, width |-> 0, height |-> 0]}

(* An error string of validateRegions: the region it names and what it says. *)
RegionError(region, what) == [region |-> region.id, what |-> what]

RegionErrorsNoMinimum(metadata, region) ==
    (IF region.x < 0 \/ region.y < 0
        THEN <<RegionError(region, "has negative coordinates")>> ELSE <<>>)
    \o (IF region.x + region.width > metadata.width
        THEN <<RegionError(region, "extends beyond image width")>> ELSE <<>>)
    \o (IF region.y + region.height > metadata.height
        THEN <<RegionError(region, "extends beyond image height")>> ELSE <<>>)

RegionErrors(metadata, region) ==
    (IF region.x < 0 \/ region.y < 0
        THEN <<RegionError(region, "has negative coordinates")>> ELSE <<>>)
    \o (IF region.x + region.width > metadata.width
        THEN <<RegionError(region, "extends beyond image width")>> ELSE <<>>)
    \o (IF region.y + region.height > metadata.height
        THEN <<RegionError(region, "extends beyond image height")>> ELSE <<>>)
    \o (IF region.width < 10 \/ region.height < 10
        THEN <<RegionError(region, "is too small (minimum 10x10 pixels)")>> ELSE <<>>)

RECURSIVE CollectErrorsFirstOnly(_, _, _)
CollectErrorsFirstOnly(metadata, regions, k) ==
    IF k > Len(regions) THEN <<>>
    ELSE IF RegionErrors(metadata, regions[k]) # <<>> THEN RegionErrors(metadata, regions[k])
    ELSE CollectErrorsFirstOnly(metadata, regions, k + 1)

RECURSIVE CollectErrors(_, _, _)
CollectErrors(metadata, regions, k) ==
    IF k > Len(regions) THEN <<>>
    ELSE RegionErrors(metadata, regions[k]) \o CollectErrors(metadata, regions, k + 1)

ValidateRegions(metadata, regions) ==
    IF ~metadata.ok
    THEN [valid |-> FALSE, errors |-> <<[region |-> 0, what |-> "Failed to validate image"]>>]
    ELSE IF metadata.width = 0 \/ metadata.height = 0
    THEN [valid |-> FALSE, errors |-> <<[region |-> 0, what |-> "Unable to read image dimensions"]>>]
    ELSE LET errors == CollectErrors(metadata, regions, 1)
         IN  [valid |-> Len(errors) = 0, errors |-> errors]

CropRegionsFirstId(regions) ==
    [k \in 1..Len(regions) |-> [regionId |-> regions[1].id, imageBuffer |-> k]]

(* cropRegions on success: one ProcessedRegion per region, in order.  The  *)
(* buffer is named by the position of the region it was cut for.           *)
CropRegions(regions) ==
    [k \in 1..Len(regions) |-> [regionId |-> regions[k].id, imageBuffer |-> k]]

----------------------------------------------------------------------------
(* The batch split of processOCRAsync *)

(* How Array.prototype.slice reads an index a of an array of n elements:   *)
(* a negative index counts from the end.                                   *)
SliceIndex(n, a) == IF a < 0 THEN (IF n + a < 0 THEN 0 ELSE n + a) ELSE Min(a, n)

(* Array.prototype.slice(a, b), on a 1-based sequence. *)
Slice(list, a, b) ==
    SubSeq(list, SliceIndex(Len(list), a) + 1, SliceIndex(Len(list), b))

RECURSIVE SplitFromDropsTail(_, _, _)
SplitFromDropsTail(list, i, k) ==
    IF i + k <= Len(list)
    THEN <<Slice(list, i, i + k)>> \o SplitFromDropsTail(list, i + k, k)
    ELSE <<>>

RECURSIVE SplitFromMergesTail(_, _, _)
SplitFromMergesTail(list, i, k) ==
    IF i >= Len(list) THEN <<>>
    ELSE IF Len(list) - i <= k + 1 THEN <<Slice(list, i, Len(list))>>
    ELSE <<Slice(list, i, i + k)>> \o SplitFromMergesTail(list, i + k, k)

RECURSIVE SplitFrom(_, _, _)
SplitFrom(list, i, k) ==
    IF i < Len(list) THEN <<Slice(list, i, i + k)>> \o SplitFrom(list, i + k, k)
    ELSE <<>>

SplitBatches(processedRegions, k) == SplitFrom(processedRegions, 0, k)

SplitIterationForward(t, k) ==
    [t EXCEPT !.batches = Append(@, Slice(t.processedRegions, t.i, t.i + k)),
              !.i = @ + (IF k < 1 THEN 1 ELSE k)]

(* One iteration of the for loop of the split, on the task record t: the   *)
(* body, then i += concurrencyLimit.                                       *)
SplitIteration(t, k) ==
    [t EXCEPT !.batches = Append(@, Slice(t.processedRegions, t.i, t.i + k)),
              !.i = @ + k]

----------------------------------------------------------------------------
(* The state a callback works on, as one record, so that the steps of a    *)
(* callback compose.                                                       *)

World == [heap |-> heap, sessions |-> sessions, task |-> task,
          timers |-> timers, inflight |-> inflight, now |-> now]

Commit(w) ==
    /\ heap' = w.heap
    /\ sessions' = w.sessions
    /\ task' = w.task
    /\ timers' = w.timers
    /\ inflight' = w.inflight
    /\ now' = w.now

(* fault, validation, cause, thrown, observed, waits and outcome are       *)
(* history: which step threw, what validateRegions returned, which promise *)
(* settled a member, the errors retryWithBackoff caught, the attempt       *)
(* numbers its observer was called with, the delays it slept and what its  *)
(* promise settled with.  Nothing reads them but the properties.           *)
NoTask ==
    [pc |-> "lookup", processedRegions |-> <<>>, batches |-> <<>>, i |-> 0, bi |-> 0,
     members |-> <<>>, fault |-> "none", validation |-> <<>>]

NewMember ==
    [st |-> "idle", image |-> "none", loop |-> "none", attempt |-> 0, result |-> <<>>,
     cause |-> "none", thrown |-> <<>>, observed |-> <<>>, waits |-> <<>>, outcome |-> <<>>]

CleanupOldSessionsInclusive(w) ==
    [w EXCEPT !.sessions = {id \in @ : ~(w.heap[id].createdAt <= w.now - RetentionMs)}]

(* cleanupOldSessions *)
CleanupOldSessions(w) ==
    [w EXCEPT !.sessions = {id \in @ : ~(w.heap[id].createdAt < w.now - RetentionMs)}]

(* The catch block of processOCRAsync, then the sweep. *)
FailSession(w, s, fault) ==
    CleanupOldSessions(
        [w EXCEPT !.heap[s].status = "failed",
                  !.heap[s].completedAt = w.now,
                  !.task[s].pc = "finished",
                  !.task[s].fault = fault])

CompleteSessionWithoutStamp(w, s) ==
    CleanupOldSessions(
        [w EXCEPT !.heap[s].status = "completed",
                  !.task[s].pc = "finished"])

(* After the last batch: status completed, then the sweep. *)
CompleteSession(w, s) ==
    CleanupOldSessions(
        [w EXCEPT !.heap[s].status = "completed",
                  !.heap[s].completedAt = w.now,
                  !.task[s].pc = "finished"])

StartBatchEager(w, s, b) ==
    [w EXCEPT !.task[s].bi = b,
              !.task[s].members = [i \in DOMAIN @ |->
                    IF @[i].st = "idle" THEN [@[i] EXCEPT !.st = "optimizing"] ELSE @[i]]]

(* processBatch(batch): every member runs up to its await of optimizeForOCR. *)
StartBatch(w, s, b) ==
    LET batch == w.task[s].batches[b]
        started == {batch[j].imageBuffer : j \in 1..Len(batch)}
    IN  [w EXCEPT !.task[s].bi = b,
                  !.task[s].members = [i \in DOMAIN @ |->
                        IF i \in started THEN [@[i] EXCEPT !.st = "optimizing"] ELSE @[i]]]

RunBatchesForgets(w, s, b) ==
    IF b <= Len(w.task[s].batches) THEN StartBatch(w, s, b) ELSE w

(* The for loop over the batches, from batch b on, up to its next await. *)
RunBatches(w, s, b) ==
    IF b <= Len(w.task[s].batches) THEN StartBatch(w, s, b) ELSE CompleteSession(w, s)

BatchSettled(w, s) ==
    LET batch == w.task[s].batches[w.task[s].bi]
    IN  \A j \in 1..Len(batch) : w.task[s].members[batch[j].imageBuffer].st = "settled"

FinishBatchReversed(w, s) ==
    LET t == w.task[s]
        batch == t.batches[t.bi]
        batchResults == [j \in 1..Len(batch) |->
                            t.members[batch[Len(batch) + 1 - j].imageBuffer].result[1]]
    IN  RunBatches([w EXCEPT !.heap[s].results = @ \o batchResults], s, t.bi + 1)

(* Promise.all has resolved: push the batch's results in batch order, go on. *)
FinishBatch(w, s) ==
    LET t == w.task[s]
        batch == t.batches[t.bi]
        batchResults == [j \in 1..Len(batch) |-> t.members[batch[j].imageBuffer].result[1]]
    IN  RunBatches([w EXCEPT !.heap[s].results = @ \o batchResults], s, t.bi + 1)

(* A timer whose promise has lost its race is dropped from the list: when *)
(* Node runs it, it rejects a promise nobody waits for any more, which     *)
(* changes nothing.                                                        *)
DropTimer(w, kind, s, i, att) ==
    [w EXCEPT !.timers = SelectSeq(@, LAMBDA t :
                            ~(t.kind = kind /\ t.s = s /\ t.i = i /\ t.att = att))]

SettleMemberPushes(w, s, i, result, cause) ==
    LET w1 == [DropTimer(w, "timeout", s, i, 0) EXCEPT
                        !.task[s].members[i].st = "settled",
                        !.task[s].members[i].result = <<result>>,
                        !.task[s].members[i].cause = cause,
                        !.heap[s].results = Append(@, result)]
    IN  IF BatchSettled(w1, s) THEN RunBatches(w1, s, w1.task[s].bi + 1) ELSE w1

(* processRegion returns its result (success or captured error). *)
SettleMember(w, s, i, result, cause) ==
    LET w1 == [DropTimer(w, "timeout", s, i, 0) EXCEPT
                        !.task[s].members[i].st = "settled",
                        !.task[s].members[i].result = <<result>>,
                        !.task[s].members[i].cause = cause]
    IN  IF BatchSettled(w1, s) THEN FinishBatch(w1, s) ELSE w1

RegionIdOf(w, s, i) == w.task[s].processedRegions[i].regionId

SuccessResult(regionId, text) == [regionId |-> regionId, text |-> text, error |-> <<>>]

(* The catch block of processRegion. *)
ErrorResult(regionId, err) ==
    [regionId |-> regionId,
     text     |-> <<>>,
     error    |-> <<[code      |-> IF err.code # "" THEN err.code ELSE "PROCESSING_ERROR",
                     message   |-> IF err.message # <<>> THEN err.message
                                   ELSE <<"Failed to process region">>,
                     retryable |-> FALSE]>>]

GeminiProcessOCRRestartsDeadline(w, s, i, att) ==
    LET w1 == IF att > 1 /\ w.task[s].members[i].st = "awaiting"
              THEN [w EXCEPT !.timers = Append(SelectSeq(@, LAMBDA t :
                                                  ~(t.kind = "timeout" /\ t.s = s /\ t.i = i)),
                                               [kind |-> "timeout", s |-> s, i |-> i,
                                                att |-> 0, due |-> w.now + ApiTimeout])]
              ELSE w
    IN  [w1 EXCEPT !.timers = Append(@, [kind |-> "request", s |-> s, i |-> i, att |-> att,
                                         due |-> w.now + ApiTimeout]),
                   !.inflight = @ \cup {[s |-> s, i |-> i, att |-> att]},
                   !.task[s].members[i].loop = "calling",
                   !.task[s].members[i].attempt = att]

(* geminiService.processOCR(visionRequest) up to its await: arms its timer *)
(* and sends the request.                                                  *)
GeminiProcessOCR(w, s, i, att) ==
    [w EXCEPT !.timers = Append(@, [kind |-> "request", s |-> s, i |-> i, att |-> att,
                                    due |-> w.now + ApiTimeout]),
              !.inflight = @ \cup {[s |-> s, i |-> i, att |-> att]},
              !.task[s].members[i].loop = "calling",
              !.task[s].members[i].attempt = att]

RetryRejectsEscapes(w, s, i, err) ==
    LET w1 == [w EXCEPT !.task[s].members[i].loop = "done"]
    IN  IF w.task[s].members[i].st = "awaiting"
        THEN SettleMember(w1, s, i, ErrorResult(RegionIdOf(w, s, i), err), "rejected")
        ELSE [w1 EXCEPT !.heap[s].status = "failed", !.heap[s].completedAt = w.now]

RetryRejectsAborts(w, s, i, err) ==
    LET w1 == [w EXCEPT !.task[s].members[i].loop = "done"]
    IN  IF w.task[s].members[i].st = "awaiting"
        THEN FailSession(w1, s, "region")
        ELSE w1

(* The promise of retryWithBackoff settles; withTimeout passes it on to    *)
(* processRegion unless the race is already decided.                       *)
RetryRejects(w, s, i, err) ==
    LET w1 == [w EXCEPT !.task[s].members[i].loop = "done",
                        !.task[s].members[i].outcome = <<[rejected |-> TRUE, with |-> err]>>]
    IN  IF w.task[s].members[i].st = "awaiting"
        THEN SettleMember(w1, s, i, ErrorResult(RegionIdOf(w, s, i), err), "rejected")
        ELSE w1

RetryResolves(w, s, i, text) ==
    LET w1 == [w EXCEPT !.task[s].members[i].loop = "done",
                        !.task[s].members[i].outcome = <<[rejected |-> FALSE, with |-> text]>>]
    IN  IF w.task[s].members[i].st = "awaiting"
        THEN SettleMember(w1, s, i, SuccessResult(RegionIdOf(w, s, i), text), "resolved")
        ELSE w1

(* The onRetry callback processRegion passes to retryWithBackoff. *)
FirstResult(results, regionId) ==
    LET hits == {j \in 1..Len(results) : results[j].regionId = regionId}
    IN  IF hits = {} THEN 0 ELSE CHOOSE j \in hits : \A h \in hits : j <= h

RetryAttemptWord == <<"Retry attempt 1:", "Retry attempt 2:", "Retry attempt 3:">>

OnRetry(w, s, i, attempt, error) ==
    LET w0 == [w EXCEPT !.task[s].members[i].observed = Append(@, attempt)]
    IN  IF s \notin w.sessions THEN w0
        ELSE LET j == FirstResult(w.heap[s].results, RegionIdOf(w, s, i))
             IN  IF j # 0 /\ w.heap[s].results[j].error # <<>>
                 THEN [w0 EXCEPT !.heap[s].results[j].error[1].message =
                                    <<RetryAttemptWord[attempt]>> \o error.message]
                 ELSE w0

RetryCatchCountsNext(w, s, i, error) ==
    LET attempt == w.task[s].members[i].attempt
        w0 == [w EXCEPT !.task[s].members[i].thrown = Append(@, error)]
    IN  IF attempt >= MaxAttempts \/ ~IsRetryableError(error)
        THEN RetryRejects(w0, s, i, error)
        ELSE LET delay == CalculateBackoffDelay(attempt)
                 w1 == OnRetry(w0, s, i, attempt + 1, error)
             IN  [w1 EXCEPT !.timers = Append(@, [kind |-> "sleep", s |-> s, i |-> i,
                                                  att |-> attempt, due |-> w.now + delay]),
                            !.task[s].members[i].loop = "sleeping",
                            !.task[s].members[i].waits = Append(@, delay)]

RetryCatchOneMore(w, s, i, error) ==
    LET attempt == w.task[s].members[i].attempt
        w0 == [w EXCEPT !.task[s].members[i].thrown = Append(@, error)]
    IN  IF attempt > MaxAttempts \/ ~IsRetryableError(error)
        THEN RetryRejects(w0, s, i, error)
        ELSE LET delay == CalculateBackoffDelay(attempt)
                 w1 == OnRetry(w0, s, i, attempt, error)
             IN  [w1 EXCEPT !.timers = Append(@, [kind |-> "sleep", s |-> s, i |-> i,
                                                  att |-> attempt, due |-> w.now + delay]),
                            !.task[s].members[i].loop = "sleeping",
                            !.task[s].members[i].waits = Append(@, delay)]

(* The catch block of retryWithBackoff for the error of attempt number     *)
(* members[i].attempt.                                                     *)
RetryCatch(w, s, i, error) ==
    LET attempt == w.task[s].members[i].attempt
        w0 == [w EXCEPT !.task[s].members[i].thrown = Append(@, error)]
    IN  IF attempt >= MaxAttempts \/ ~IsRetryableError(error)
        THEN RetryRejects(w0, s, i, error)
        ELSE LET delay == CalculateBackoffDelay(attempt)
                 w1 == OnRetry(w0, s, i, attempt, error)
             IN  [w1 EXCEPT !.timers = Append(@, [kind |-> "sleep", s |-> s, i |-> i,
                                                  att |-> attempt, due |-> w.now + delay]),
                            !.task[s].members[i].loop = "sleeping",
                            !.task[s].members[i].waits = Append(@, delay)]

----------------------------------------------------------------------------
(* Initial state: the server has started, nothing was requested. *)

NoResponse == [code |-> 0, body |-> "none"]

(* The state of useOCRProcessing when the component is mounted: no         *)
(* results, not processing, no error, no session id, no polling interval.  *)
(* totalRegions is the regions.length the interval's callback closes over; *)
(* failures counts the polls whose error pollStatus caught, up to          *)
(* MaxPollFailures.                                                        *)
NoClient ==
    [results |-> <<>>, isProcessing |-> FALSE, error |-> "", sessionId |-> 0,
     polling |-> FALSE, totalRegions |-> 0, failures |-> 0]

Init ==
    /\ heap = <<>>
    /\ sessions = {}
    /\ task = <<>>
    /\ timers = <<>>
    /\ inflight = {}
    /\ now = 0
    /\ concurrencyLimit \in 1..MaxLimit
    /\ apiKey = TRUE
    /\ response = NoResponse
    /\ client = NoClient

----------------------------------------------------------------------------
(* POST /api/ocr/process *)

ImageIds == {"", "img"}

ErrorResponse(code, errorCode) == [code |-> code, body |-> errorCode]

ProcessOCRWithoutKeyCheck(imageId, regions) ==
    /\ UNCHANGED <<now, concurrencyLimit, apiKey>>
    /\ IF imageId = "" \/ Len(regions) = 0
       THEN /\ response' = ErrorResponse(400, "INVALID_REQUEST")
            /\ UNCHANGED <<heap, sessions, task, timers, inflight>>
       ELSE /\ Len(heap) < MaxSessions
            /\ LET sessionId == Len(heap) + 1
                   session == [id |-> sessionId, imageId |-> imageId, regions |-> regions,
                               results |-> <<>>, status |-> "processing",
                               createdAt |-> now, completedAt |-> -1]
               IN  /\ heap' = Append(heap, session)
                   /\ sessions' = sessions \cup {sessionId}
                   /\ task' = Append(task, NoTask)
                   /\ response' = [code |-> 200, body |-> "accepted", sessionId |-> sessionId,
                                   results |-> <<>>]
            /\ UNCHANGED <<timers, inflight>>

ProcessOCR(imageId, regions) ==
    /\ UNCHANGED <<now, concurrencyLimit, apiKey>>
    /\ IF imageId = "" \/ Len(regions) = 0
       THEN /\ response' = ErrorResponse(400, "INVALID_REQUEST")
            /\ UNCHANGED <<heap, sessions, task, timers, inflight>>
       ELSE IF ~apiKey
       THEN /\ response' = ErrorResponse(500, "CONFIG_ERROR")
            /\ UNCHANGED <<heap, sessions, task, timers, inflight>>
       ELSE /\ Len(heap) < MaxSessions
            /\ LET sessionId == Len(heap) + 1
                   session == [id |-> sessionId, imageId |-> imageId, regions |-> regions,
                               results |-> <<>>, status |-> "processing",
                               createdAt |-> now, completedAt |-> -1]
               IN  /\ heap' = Append(heap, session)
                   /\ sessions' = sessions \cup {sessionId}
                   \* processOCRAsync runs up to its first await
                   /\ task' = Append(task, NoTask)
                   /\ response' = [code |-> 200, body |-> "accepted", sessionId |-> sessionId,
                                   results |-> <<>>]
            /\ UNCHANGED <<timers, inflight>>

StatusOfCountsRegions(sessionId) ==
    IF sessionId \notin sessions THEN ErrorResponse(404, "SESSION_NOT_FOUND")
    ELSE LET session == heap[sessionId]
         IN  [code |-> 200, body |-> "status", sessionId |-> session.id,
              results |-> session.results,
              processingTime |-> IF session.completedAt # -1
                                 THEN session.completedAt - session.createdAt
                                 ELSE now - session.createdAt,
              success |-> (session.status = "completed"),
              status |-> session.status,
              progress |-> [current |-> Len(session.regions), total |-> Len(session.regions)]]

(* GET /api/ocr/status/:sessionId *)
StatusOf(sessionId) ==
    IF sessionId \notin sessions THEN ErrorResponse(404, "SESSION_NOT_FOUND")
    ELSE LET session == heap[sessionId]
         IN  [code |-> 200, body |-> "status", sessionId |-> session.id,
              results |-> session.results,
              processingTime |-> IF session.completedAt # -1
                                 THEN session.completedAt - session.createdAt
                                 ELSE now - session.createdAt,
              success |-> (session.status = "completed"),
              status |-> session.status,
              progress |-> [current |-> Len(session.results), total |-> Len(session.regions)]]

GetOCRStatus(sessionId) ==
    /\ response' = StatusOf(sessionId)
    /\ UNCHANGED <<heap, sessions, task, timers, inflight, now, concurrencyLimit, apiKey>>

----------------------------------------------------------------------------
(* The browser: useOCRProcessing over the api client *)

PollStatusStopsOnError(c, answer) ==
    IF answer = <<>> \/ answer[1].code # 200
    THEN [c EXCEPT !.isProcessing = FALSE, !.polling = FALSE,
                   !.failures = Min(@ + 1, MaxPollFailures)]
    ELSE LET statusResponse == answer[1]
             isComplete == \/ statusResponse.status = "completed"
                           \/ statusResponse.status = "failed"
                           \/ (Len(statusResponse.results) = c.totalRegions /\ c.totalRegions > 0)
             c1 == [c EXCEPT !.results = statusResponse.results]
         IN  IF isComplete THEN [c1 EXCEPT !.isProcessing = FALSE, !.polling = FALSE] ELSE c1

(* pollStatus for the answer of one request: <<>> when fetch rejects, else *)
(* the HTTP response.  handleResponse throws for a response that is not    *)
(* ok, and the catch of pollStatus only logs.                              *)
PollStatus(c, answer) ==
    IF answer = <<>> \/ answer[1].code # 200
    THEN [c EXCEPT !.failures = Min(@ + 1, MaxPollFailures)]
    ELSE LET statusResponse == answer[1]
             isComplete == \/ statusResponse.status = "completed"
                           \/ statusResponse.status = "failed"
                           \/ (Len(statusResponse.results) = c.totalRegions /\ c.totalRegions > 0)
             c1 == [c EXCEPT !.results = statusResponse.results]
         IN  IF isComplete THEN [c1 EXCEPT !.isProcessing = FALSE, !.polling = FALSE] ELSE c1

(* The hook's processOCR(imageId, regions), from the call to the handling  *)
(* of the server's answer: the request reaches the server or fetch rejects.*)
(* On an accepted request the interval is armed; the initial poll is a     *)
(* poll like those of the interval.                                        *)
ClientProcessOCR(imageId, regions, reached) ==
    /\ client = NoClient
    /\ heap = <<>>
    /\ IF reached
       THEN /\ ProcessOCR(imageId, regions)
            /\ client' = IF response'.code = 200
                         THEN [NoClient EXCEPT !.isProcessing = TRUE,
                                               !.sessionId = response'.sessionId,
                                               !.polling = TRUE,
                                               !.totalRegions = Len(regions)]
                         ELSE [NoClient EXCEPT !.error = response'.body]
       ELSE /\ client' = [NoClient EXCEPT !.error = "Failed to fetch"]
            /\ UNCHANGED <<heap, sessions, task, timers, inflight, now, concurrencyLimit,
                           apiKey, response>>

(* One run of the interval's callback (or the initial poll): the request,  *)
(* the server's getOCRStatus, and pollStatus on the answer.                *)
ClientPoll(reached) ==
    /\ client.polling
    /\ IF reached
       THEN /\ GetOCRStatus(client.sessionId)
            /\ client' = PollStatus(client, <<response'>>)
       ELSE /\ client' = PollStatus(client, <<>>)
            /\ UNCHANGED <<heap, sessions, task, timers, inflight, now, concurrencyLimit,
                           apiKey, response>>

----------------------------------------------------------------------------
(* processOCRAsync: the continuations of its awaits *)

Frame == UNCHANGED <<concurrencyLimit, apiKey, response, client>>

(* readdir has returned; the image file is found or not. *)
LookupDone(s, found) ==
    /\ s \in DOMAIN task
    /\ task[s].pc = "lookup"
    /\ Commit(IF found THEN [World EXCEPT !.task[s].pc = "validate"]
              ELSE FailSession(World, s, "lookup"))
    /\ Frame

(* validateRegions has returned. *)
ValidateDone(s, metadata) ==
    /\ s \in DOMAIN task
    /\ task[s].pc = "validate"
    /\ LET validation == ValidateRegions(metadata, heap[s].regions)
           w1 == [World EXCEPT !.task[s].validation = <<[metadata |-> metadata,
                                                         returned |-> validation]>>]
       IN  Commit(IF validation.valid
                  THEN [w1 EXCEPT !.task[s].pc = "crop"]
                  ELSE FailSession(w1, s, "validate"))
    /\ Frame

(* cropRegions has returned (failAt = 0) or thrown at region failAt; on    *)
(* success the batches are split and the first batch is started.  With a   *)
(* limit of 1 or more the for loop of the split ends and is taken as a     *)
(* whole; with a smaller limit its iterations are the steps of SplitLoop.  *)
CropDone(s, failAt) ==
    /\ s \in DOMAIN task
    /\ task[s].pc = "crop"
    /\ failAt \in 0..Len(heap[s].regions)
    /\ Commit(IF failAt # 0 THEN FailSession(World, s, "crop")
              ELSE IF concurrencyLimit < 1
              THEN [World EXCEPT !.task[s].pc = "split",
                                 !.task[s].processedRegions = CropRegions(heap[s].regions),
                                 !.task[s].i = 0]
              ELSE LET processedRegions == CropRegions(heap[s].regions)
                       w1 == [World EXCEPT
                                !.task[s].pc = "batches",
                                !.task[s].processedRegions = processedRegions,
                                !.task[s].batches = SplitBatches(processedRegions, concurrencyLimit),
                                !.task[s].members = [i \in 1..Len(processedRegions) |-> NewMember]]
                   IN  RunBatches(w1, s, 1))
    /\ Frame

(* The for loop of the split, one iteration at a time, inside the          *)
(* callback that cropRegions resumed: no other callback of the process     *)
(* runs before the loop ends.  At most MaxIterations iterations are        *)
(* followed.                                                               *)
SplitLoop(s) ==
    /\ s \in DOMAIN task
    /\ task[s].pc = "split"
    /\ LET t == task[s]
       IN  IF t.i < Len(t.processedRegions)
           THEN /\ Len(t.batches) < MaxIterations
                /\ Commit([World EXCEPT !.task[s] = SplitIteration(@, concurrencyLimit)])
           ELSE Commit(RunBatches([World EXCEPT
                           !.task[s].pc = "batches",
                           !.task[s].members = [i \in 1..Len(t.processedRegions) |-> NewMember]],
                           s, 1))
    /\ Frame

OptimizeDoneThrows(s, i, enhanced) ==
    /\ s \in DOMAIN task
    /\ i \in DOMAIN task[s].members
    /\ task[s].members[i].st = "optimizing"
    /\ LET w1 == [World EXCEPT !.task[s].members[i].image =
                                    IF enhanced THEN "enhanced" ELSE "original"]
           w2 == GeminiProcessOCR(w1, s, i, 1)
       IN  Commit(IF enhanced
                  THEN [w2 EXCEPT !.timers = Append(@, [kind |-> "timeout", s |-> s, i |-> i,
                                                        att |-> 0, due |-> w2.now + ApiTimeout]),
                                  !.task[s].members[i].st = "awaiting"]
                  ELSE SettleMember(w1, s, i,
                                    ErrorResult(RegionIdOf(w1, s, i),
                                                [message |-> <<"Failed to optimize image">>,
                                                 code |-> ""]),
                                    "rejected"))
    /\ Frame

OptimizeDoneArmsOuterFirst(s, i, enhanced) ==
    /\ s \in DOMAIN task
    /\ i \in DOMAIN task[s].members
    /\ task[s].members[i].st = "optimizing"
    /\ LET w1 == [World EXCEPT !.task[s].members[i].image =
                                    IF enhanced THEN "enhanced" ELSE "original",
                               !.timers = Append(@, [kind |-> "timeout", s |-> s, i |-> i,
                                                     att |-> 0, due |-> now + ApiTimeout])]
           w2 == GeminiProcessOCR(w1, s, i, 1)
       IN  Commit([w2 EXCEPT !.task[s].members[i].st = "awaiting"])
    /\ Frame

(* optimizeForOCR has returned for member i: the vision request is built,  *)
(* retryWithBackoff makes its first call, withTimeout arms its timer.      *)
OptimizeDone(s, i, enhanced) ==
    /\ s \in DOMAIN task
    /\ i \in DOMAIN task[s].members
    /\ task[s].members[i].st = "optimizing"
    /\ LET w1 == [World EXCEPT !.task[s].members[i].image =
                                    IF enhanced THEN "enhanced" ELSE "original"]
           w2 == GeminiProcessOCR(w1, s, i, 1)
       IN  Commit([w2 EXCEPT !.timers = Append(@, [kind |-> "timeout", s |-> s, i |-> i,
                                                   att |-> 0, due |-> w2.now + ApiTimeout]),
                             !.task[s].members[i].st = "awaiting"])
    /\ Frame

(* The backend answers request c: with text (err = <<>>) or an error. *)
CallPending(w, c) ==
    /\ w.task[c.s].members[c.i].loop = "calling"
    /\ w.task[c.s].members[c.i].attempt = c.att

BackendAnswer(c, err) ==
    /\ c \in inflight
    /\ LET w1 == [DropTimer(World, "request", c.s, c.i, c.att) EXCEPT !.inflight = @ \ {c}]
       IN  Commit(IF ~CallPending(World, c) THEN w1
                  ELSE IF err = <<>> THEN RetryResolves(w1, c.s, c.i, <<c.att>>)
                  ELSE RetryCatch(w1, c.s, c.i, GeminiCatch(err[1])))
    /\ Frame

----------------------------------------------------------------------------
(* Timers and the clock *)

Dues == {timers[k].due : k \in DOMAIN timers}

(* The timer Node runs next: the earliest due, the first armed among equals. *)
NextTimer ==
    CHOOSE k \in DOMAIN timers :
        \A j \in DOMAIN timers :
            timers[k].due < timers[j].due \/ (timers[k].due = timers[j].due /\ k <= j)

RemoveAt(seq, k) == SubSeq(seq, 1, k - 1) \o SubSeq(seq, k + 1, Len(seq))

RunTimer(w, t) ==
    IF t.kind = "request"
    THEN IF CallPending(w, t)
         THEN RetryCatch(w, t.s, t.i, GeminiCatch(RequestTimeoutError))
         ELSE w
    ELSE IF t.kind = "timeout"
    THEN IF w.task[t.s].members[t.i].st = "awaiting"
         THEN SettleMember(w, t.s, t.i, ErrorResult(RegionIdOf(w, t.s, t.i), CreateTimeoutError),
                           "timeout")
         ELSE w
    ELSE GeminiProcessOCR(w, t.s, t.i, t.att + 1)

Max(a, b) == IF a >= b THEN a ELSE b

(* Time passes until the next timer is due, and Node runs it. *)
FireTimer ==
    /\ timers # <<>>
    /\ LET t == timers[NextTimer]
       IN  Commit(RunTimer([World EXCEPT !.timers = RemoveAt(@, NextTimer),
                                         !.now = Max(@, t.due)], t))
    /\ Frame

ElapseSteps == {RetentionMs, RetentionMs + 1000}

(* Time passes while no timer is armed. *)
Elapse(d) ==
    /\ now + d <= MaxClock
    /\ \A due \in Dues : now + d <= due
    /\ now' = now + d
    /\ UNCHANGED <<heap, sessions, task, timers, inflight, concurrencyLimit, apiKey, response,
                   client>>

----------------------------------------------------------------------------

Created == 1..Len(heap)

(* What the clients ask of the server in each specification. *)
Pipeline ==
    [sessions |-> 1, regions |-> MaxRegions, errors |-> BackendErrors, enhanced |-> {TRUE}]
Store ==
    [sessions |-> MaxSessions, regions |-> 1, errors |-> {}, enhanced |-> BOOLEAN]

Accepted(load) ==
    \E regions \in RegionLists(load.regions) \ {<<>>} :
        Len(heap) < load.sessions /\ ProcessOCR("img", regions) /\ UNCHANGED client

Background(load) ==
    \/ \E s \in Created, found \in BOOLEAN : LookupDone(s, found)
    \/ \E s \in Created, metadata \in Metadatas : ValidateDone(s, metadata)
    \/ \E s \in Created, failAt \in 0..MaxRegions : CropDone(s, failAt)
    \/ \E s \in Created, i \in 1..MaxRegions, enhanced \in load.enhanced : OptimizeDone(s, i, enhanced)
    \/ \E c \in inflight, err \in {<<>>} \cup {<<e>> : e \in load.errors} : BackendAnswer(c, err)
    \/ FireTimer

(* One session and its regions. *)
Next ==
    \/ Accepted(Pipeline)
    \/ Background(Pipeline)

Spec == Init /\ [][Next]_vars

(* Several sessions over hours. *)
StoreNext ==
    \/ Accepted(Store)
    \/ Background(Store)
    \/ \E d \in ElapseSteps : Elapse(d)

StoreSpec == Init /\ [][StoreNext]_vars

(* The same, with the scheduling Node guarantees: an awaited file or image *)
(* operation returns, time passes and a due timer runs.  Nothing is       *)
(* assumed of the vision backend.                                          *)
Fairness ==
    /\ \A s \in 1..Pipeline.sessions :
        /\ WF_vars(\E found \in BOOLEAN : LookupDone(s, found))
        /\ WF_vars(\E metadata \in Metadatas : ValidateDone(s, metadata))
        /\ WF_vars(\E failAt \in 0..MaxRegions : CropDone(s, failAt))
        /\ \A i \in 1..MaxRegions : WF_vars(\E enhanced \in Pipeline.enhanced : OptimizeDone(s, i, enhanced))
    /\ WF_vars(FireTimer)

FairSpec == Init /\ [][Next]_vars /\ Fairness

(* The two endpoints as clients call them, with or without a configured   *)
(* credential, next to the background tasks and the sweep.                 *)
ApiInit ==
    /\ heap = <<>>
    /\ sessions = {}
    /\ task = <<>>
    /\ timers = <<>>
    /\ inflight = {}
    /\ now = 0
    /\ concurrencyLimit \in 1..MaxLimit
    /\ apiKey \in BOOLEAN
    /\ response = NoResponse
    /\ client = NoClient

Api ==
    [sessions |-> 2, regions |-> 1, errors |-> {}, enhanced |-> {TRUE}]

(* The ids clients ask the status of: those of sessions, and one of none. *)
SessionIds == 1..(Api.sessions + 1)

Requested(load) ==
    \E imageId \in ImageIds, regions \in RegionLists(load.regions) :
        /\ Len(heap) < load.sessions \/ imageId = "" \/ regions = <<>> \/ ~apiKey
        /\ ProcessOCR(imageId, regions)
        /\ UNCHANGED client

ApiNext ==
    \/ Requested(Api)
    \/ \E sessionId \in SessionIds : GetOCRStatus(sessionId) /\ UNCHANGED client
    \/ Background(Api)
    \/ \E d \in ElapseSteps : Elapse(d)

ApiSpec == ApiInit /\ [][ApiNext]_vars

(* retryWithBackoff around an operation that may reject with any error:   *)
(* with or without a retryable flag, with or without a marker in its code  *)
(* or its message.                                                         *)
(* One region whose vision call may fail with any of these underlying      *)
(* errors: no message, a marker of GeminiService, a marker of the backoff  *)
(* list only, or no marker; no code, a code on the backoff list, or        *)
(* another code.                                                           *)
UnderlyingErrors ==
    [message : {<<>>, <<"UNAVAILABLE">>, <<"INTERNAL", "error">>, <<"ECONNRESET">>,
                <<"read", "ETIMEDOUT">>, <<"bad", "request">>},
     code : {"", "ECONNRESET", "E400"}]

Vision ==
    [sessions |-> 1, regions |-> 1, errors |-> UnderlyingErrors, enhanced |-> {TRUE}]

VisionNext ==
    \/ Accepted(Vision)
    \/ Background(Vision)

VisionSpec == Init /\ [][VisionNext]_vars

ThrownErrors ==
    [message : {<<"bad", "request">>, <<"UNAVAILABLE">>},
     code : {"E400", "ECONNRESET"},
     retryable : {"true", "false", "absent"}]

OperationRejects(c, error) ==
    /\ c \in inflight
    /\ CallPending(World, c)
    /\ Commit(RetryCatch([DropTimer(World, "request", c.s, c.i, c.att) EXCEPT !.inflight = @ \ {c}],
                          c.s, c.i, error))
    /\ Frame

Retry ==
    [sessions |-> 1, regions |-> 1, errors |-> {}, enhanced |-> {TRUE}]

RetryNext ==
    \/ Accepted(Retry)
    \/ Background(Retry)
    \/ \E c \in inflight, error \in ThrownErrors : OperationRejects(c, error)

RetrySpec == Init /\ [][RetryNext]_vars

(* validateRegions on regions of every shape: left of, above, beyond and  *)
(* inside the image, too small, and exactly at the limits.                 *)
RegionShapes ==
    [x : {-1, 0, 90}, y : {-1, 0}, width : {9, 10, 11}, height : {10, 101}]

ShapedRegionLists(max) ==
    UNION {{[k \in 1..n |-> [id |-> k, x |-> shape[k].x, y |-> shape[k].y,
                                width |-> shape[k].width, height |-> shape[k].height]] :
                shape \in [1..n -> RegionShapes]} : n \in 1..max}

ImageSizes ==
    {[ok |-> TRUE, width |-> 100, height |-> 100],
     [ok |-> TRUE, width |-> 95, height |-> 100]}

ValidateNext ==
    \/ /\ heap = <<>>
       /\ \E regions \in ShapedRegionLists(MaxRegions) : ProcessOCR("img", regions)
       /\ UNCHANGED client
    \/ \E s \in Created, found \in BOOLEAN : LookupDone(s, found)
    \/ \E s \in Created, metadata \in ImageSizes \cup Metadatas : ValidateDone(s, metadata)

ValidateSpec == Init /\ [][ValidateNext]_vars

(* The batch split on longer lists and more limits: one request up to its *)
(* split, as far as the first batch's start.                               *)
SplitInit ==
    /\ heap = <<>>
    /\ sessions = {}
    /\ task = <<>>
    /\ timers = <<>>
    /\ inflight = {}
    /\ now = 0
    /\ concurrencyLimit \in 1..SplitLimit
    /\ apiKey = TRUE
    /\ response = NoResponse
    /\ client = NoClient

SplitNext ==
    \/ /\ heap = <<>>
       /\ \E regions \in RegionLists(SplitRegions) \ {<<>>} : ProcessOCR("img", regions)
       /\ UNCHANGED client
    \/ \E s \in Created, found \in BOOLEAN : LookupDone(s, found)
    \/ \E s \in Created, metadata \in Metadatas : ValidateDone(s, metadata)
    \/ \E s \in Created, failAt \in 0..SplitRegions : CropDone(s, failAt)

SplitSpec == SplitInit /\ [][SplitNext]_vars

(* One browser: it submits once and polls, over a server whose key may be  *)
(* missing, while hours may pass.                                          *)
Browser ==
    [sessions |-> 1, regions |-> 1, errors |-> {}, enhanced |-> BOOLEAN]

ClientNext ==
    \/ \E imageId \in ImageIds, regions \in RegionLists(Browser.regions), reached \in BOOLEAN :
           ClientProcessOCR(imageId, regions, reached)
    \/ \E reached \in BOOLEAN : ClientPoll(reached)
    \/ Background(Browser)
    \/ \E d \in ElapseSteps : Elapse(d)

ClientSpec == ApiInit /\ [][ClientNext]_vars

(* OCR_CONCURRENCY_LIMIT set to 0 or to a negative number. *)
LoopInit ==
    /\ heap = <<>>
    /\ sessions = {}
    /\ task = <<>>
    /\ timers = <<>>
    /\ inflight = {}
    /\ now = 0
    /\ concurrencyLimit \in (0 - MaxLimit)..0
    /\ apiKey = TRUE
    /\ response = NoResponse
    /\ client = NoClient

LoopNext ==
    \/ /\ heap = <<>>
       /\ \E regions \in RegionLists(MaxRegions) \ {<<>>} : ProcessOCR("img", regions)
       /\ UNCHANGED client
    \/ \E s \in Created, found \in BOOLEAN : LookupDone(s, found)
    \/ \E s \in Created, metadata \in Metadatas : ValidateDone(s, metadata)
    \/ \E s \in Created, failAt \in 0..MaxRegions : CropDone(s, failAt)
    \/ \E s \in Created : SplitLoop(s)

LoopSpec == LoopInit /\ [][LoopNext]_vars

----------------------------------------------------------------------------
(* Properties *)

Terminal == {"completed", "failed"}

Calls(s) == {c \in inflight : c.s = s}

Ids(regions) == [k \in 1..Len(regions) |-> regions[k].id]

Distinct(seq) == \A j, k \in DOMAIN seq : j # k => seq[j] # seq[k]

(* C1: a session's status starts as processing, is never pending, and     *)
(* once completed or failed never changes again; the status endpoint      *)
(* reports the stored status.                                              *)
C1_StatusForward ==
    [][\A s \in 1..Len(heap') :
          /\ heap'[s].status \in {"processing", "completed", "failed"}
          /\ s \in sessions' => StatusOf(s)'.status = heap'[s].status
          /\ s \notin Created => heap'[s].status = "processing"
          /\ (s \in Created /\ heap[s].status \in Terminal) =>
                heap'[s].status = heap[s].status]_vars

C1_Witness ==
    \E s \in Created :
        /\ heap[s].status = "completed"
        /\ \E i \in DOMAIN task[s].members :
              task[s].members[i].cause = "timeout" /\ task[s].members[i].loop = "done"

(* C2: with a concurrency limit of at least 1, a completed session has one *)
(* result per submitted region and a failed session has no result.         *)
C2_TerminalResults ==
    concurrencyLimit >= 1 =>
        \A s \in Created :
            /\ heap[s].status = "completed" => Len(heap[s].results) = Len(heap[s].regions)
            /\ heap[s].status = "failed" => heap[s].results = <<>>

C2_Witness ==
    \E s \in Created :
        /\ heap[s].status = "completed"
        /\ Len(heap[s].results) >= 2
        /\ Len(task[s].batches) >= 2

(* C3: once a session is completed or failed, completedAt is set and no    *)
(* step changes its status, its completedAt or its results.                *)
C3_FrozenAfterTerminal ==
    [][\A s \in Created :
          heap[s].status \in Terminal =>
              /\ heap[s].completedAt # -1
              /\ heap'[s].status = heap[s].status
              /\ heap'[s].completedAt = heap[s].completedAt
              /\ heap'[s].results = heap[s].results
              /\ (s \in sessions /\ s \in sessions') => StatusOf(s)' = StatusOf(s)]_vars

(* C4: for a request with pairwise distinct region ids, every regionId in  *)
(* results is a submitted id, none appears twice, and there are never more *)
(* results than regions.                                                   *)
C4_ResultIds ==
    \A s \in Created :
        Distinct(Ids(heap[s].regions)) =>
            /\ \A j \in DOMAIN heap[s].results :
                  heap[s].results[j].regionId \in Range(Ids(heap[s].regions))
            /\ Distinct([j \in DOMAIN heap[s].results |-> heap[s].results[j].regionId])
            /\ Len(heap[s].results) <= Len(heap[s].regions)

C4_Witness ==
    \E s \in Created :
        /\ Len(heap[s].results) = 2
        /\ heap[s].results[1].regionId # heap[s].results[2].regionId
        /\ heap[s].status = "processing" \/ heap[s].results[2].error # <<>>

(* C5: a region whose vision call is rejected or times out never fails the *)
(* session and never stops the others: once cropping succeeded the session *)
(* is never failed, every member of the current batch is started whatever  *)
(* its siblings did, every member of an earlier batch made a vision call,  *)
(* and when the task finishes the session is completed, every region made  *)
(* a vision call, and every rejected or timed-out region has a result with *)
(* an error entry.                                                         *)
BatchOf(s, i) ==
    CHOOSE b \in DOMAIN task[s].batches :
        \E j \in DOMAIN task[s].batches[b] : task[s].batches[b][j].imageBuffer = i

C5_FailuresContained ==
    \A s \in Created :
        LET t == task[s] IN
        t.members # <<>> =>
            /\ heap[s].status # "failed"
            /\ \A i \in DOMAIN t.members :
                  /\ (t.pc = "batches" /\ BatchOf(s, i) = t.bi) => t.members[i].st # "idle"
                  /\ (t.pc = "finished" \/ BatchOf(s, i) < t.bi) =>
                        /\ t.members[i].attempt >= 1
                        /\ t.members[i].st = "settled"
                        /\ \E j \in DOMAIN heap[s].results :
                              /\ heap[s].results[j].regionId = heap[s].regions[i].id
                              /\ t.members[i].cause \in {"rejected", "timeout"} =>
                                    heap[s].results[j].error # <<>>
            /\ t.pc = "finished" => heap[s].status = "completed"

C5_Witness ==
    \E s \in Created :
        /\ task[s].pc = "finished"
        /\ Len(task[s].members) >= 2
        /\ \A i \in DOMAIN task[s].members : task[s].members[i].cause \in {"rejected", "timeout"}
        /\ \E i \in DOMAIN task[s].members : task[s].members[i].cause = "rejected"

(* C6: a session never has more vision calls sent and not yet answered     *)
(* than the concurrency limit.                                             *)
C6_CallsBounded ==
    \A s \in Created : Cardinality(Calls(s)) <= concurrencyLimit

(* C7: when the image lookup, validateRegions or cropRegions fails, the    *)
(* session is failed with completedAt set and no result, and no vision     *)
(* call was made for it; a session gets past validation only if every      *)
(* region lies inside the image and is at least 10 by 10.                  *)
NoVisionCall(s) ==
    /\ task[s].members = <<>>
    /\ Calls(s) = {}
    /\ \A k \in DOMAIN timers : timers[k].s # s

C7_FaultFails ==
    \A s \in Created :
        /\ (task[s].fault # "none" \/ heap[s].status = "failed") =>
              /\ heap[s].status = "failed"
              /\ heap[s].completedAt # -1
              /\ heap[s].results = <<>>
              /\ NoVisionCall(s)
        /\ (task[s].pc \in {"crop", "batches"} \/ ~NoVisionCall(s)) =>
              \A k \in DOMAIN heap[s].regions :
                  LET r == heap[s].regions[k] IN
                  /\ r.x >= 0 /\ r.y >= 0
                  /\ r.x + r.width <= 100 /\ r.y + r.height <= 100
                  /\ r.width >= 10 /\ r.height >= 10

C7_Witness ==
    \E s \in Created :
        /\ task[s].fault = "validate"
        /\ \E k \in DOMAIN heap[s].regions : heap[s].regions[k].width < 10

(* C8: a session whose status is processing is in the store: the status    *)
(* endpoint finds it.                                                      *)
C8_ProcessingIsFound ==
    \A s \in Created : heap[s].status = "processing" => StatusOf(s).code = 200

(* C9: when a session's task finishes, the sweep leaves in the store no    *)
(* session created more than the retention window ago and every session    *)
(* created within the window.                                              *)
C9_SweepOnFinish ==
    [][\A s \in Created :
          (task[s].pc # "finished" /\ task'[s].pc = "finished") =>
              \A u \in Created :
                  /\ heap[u].createdAt < now' - RetentionMs => u \notin sessions'
                  /\ heap[u].createdAt >= now' - RetentionMs => u \in sessions']_vars

C9_Witness ==
    \E u, v \in Created :
        /\ u \notin sessions
        /\ v \in sessions
        /\ task[v].pc = "finished"
        /\ heap[v].createdAt < now

(* C10: every accepted session eventually is completed or failed, whether  *)
(* or not the vision backend answers.                                      *)
C10_Terminates ==
    \A s \in 1..Pipeline.sessions :
        [](s \in Created => <>(s \in Created /\ heap[s].status \in Terminal))

C10_Witness ==
    \E s \in Created :
        /\ heap[s].status = "completed"
        /\ \A i \in DOMAIN task[s].members : [s |-> s, i |-> i, att |-> 1] \in inflight

(* C11: getOCRStatus for an id not in the store answers 404               *)
(* SESSION_NOT_FOUND; for an id in the store it answers the session's      *)
(* results and status, progress.current = number of results,               *)
(* progress.total = number of regions and success exactly when the status  *)
(* is completed; in both cases it changes no session and not the store.    *)
C11_StatusAnswer ==
    [][\A sessionId \in SessionIds :
          GetOCRStatus(sessionId) =>
              /\ heap' = heap /\ sessions' = sessions /\ task' = task
              /\ IF sessionId \notin sessions
                 THEN response'.code = 404 /\ response'.body = "SESSION_NOT_FOUND"
                 ELSE /\ response'.code = 200
                      /\ response'.results = heap[sessionId].results
                      /\ response'.status = heap[sessionId].status
                      /\ response'.progress.current = Len(heap[sessionId].results)
                      /\ response'.progress.total = Len(heap[sessionId].regions)
                      /\ response'.success = (heap[sessionId].status = "completed")]_vars

C11_Witness ==
    /\ response.body = "status"
    /\ response.status = "processing"
    /\ response.progress.current = 0
    /\ response.progress.total = 1
    /\ \E s \in Created : s \notin sessions

(* C12: a process request without imageId or without regions is answered   *)
(* 400 INVALID_REQUEST, a well-formed one without a configured credential  *)
(* 500 CONFIG_ERROR, and neither adds a session or starts a task; an       *)
(* accepted request is answered with a new sessionId and empty results,    *)
(* and its session is stored as processing with empty results.             *)
C12_ProcessAnswer ==
    [][\A imageId \in ImageIds, regions \in RegionLists(Api.regions) :
          ProcessOCR(imageId, regions) =>
              IF imageId = "" \/ regions = <<>>
              THEN /\ response' = [code |-> 400, body |-> "INVALID_REQUEST"]
                   /\ heap' = heap /\ sessions' = sessions /\ task' = task
              ELSE IF ~apiKey
              THEN /\ response' = [code |-> 500, body |-> "CONFIG_ERROR"]
                   /\ heap' = heap /\ sessions' = sessions /\ task' = task
              ELSE /\ response'.code = 200
                   /\ response'.results = <<>>
                   /\ response'.sessionId \notin Created
                   /\ response'.sessionId \in sessions'
                   /\ heap'[response'.sessionId].status = "processing"
                   /\ heap'[response'.sessionId].results = <<>>
                   /\ heap'[response'.sessionId].regions = regions
                   /\ Len(task') = Len(task) + 1
                   /\ \A s \in Created : heap'[s] = heap[s] /\ task'[s] = task[s]]_vars

C12_Witness ==
    /\ response.body = "accepted"
    /\ response.sessionId = 2
    /\ heap[2].status = "processing"
    /\ heap[1].status = "completed"

(* C13: the error entry recorded for a failed region has the code, the     *)
(* message and the retryable flag of the error that was caught: a region   *)
(* ended by the outer timeout is recorded with code TIMEOUT and retryable  *)
(* true, a region whose retries ended is recorded with the last error's    *)
(* code, message and flag.                                                 *)
C13_ErrorFields ==
    \A s \in Created : \A i \in DOMAIN task[s].members :
        LET member == task[s].members[i] IN
        (member.st = "settled" /\ member.result[1].error # <<>>) =>
            LET recorded == member.result[1].error[1] IN
            /\ member.cause = "timeout" =>
                  /\ recorded.code = "TIMEOUT"
                  /\ recorded.message = CreateTimeoutError.message
                  /\ recorded.retryable = TRUE
            /\ member.cause = "rejected" =>
                  LET caught == member.thrown[Len(member.thrown)] IN
                  /\ recorded.code = caught.code
                  /\ recorded.message = caught.message
                  /\ recorded.retryable = (caught.retryable = "true")

(* C14: in retryWithBackoff a failure carrying retryable false ends the    *)
(* loop at once, whatever its code and message contain: no further call,   *)
(* no observer call, no wait; a failure carrying retryable true is         *)
(* followed by an observer call, a wait and another call while attempts    *)
(* remain, whether or not a marker matches.                                *)
Sleeping(s, i, attempt) ==
    \E k \in DOMAIN timers :
        timers[k].kind = "sleep" /\ timers[k].s = s /\ timers[k].i = i /\ timers[k].att = attempt

C14_FlagDecides ==
    \A s \in Created : \A i \in DOMAIN task[s].members :
        LET member == task[s].members[i] IN
        \A k \in DOMAIN member.thrown :
            /\ member.thrown[k].retryable = "false" =>
                  /\ k = Len(member.thrown)
                  /\ member.attempt = k
                  /\ member.loop = "done"
                  /\ Len(member.observed) = k - 1
                  /\ Len(member.waits) = k - 1
                  /\ ~Sleeping(s, i, k)
            /\ (member.thrown[k].retryable = "true" /\ k < MaxAttempts) =>
                  /\ Len(member.observed) >= k
                  /\ Len(member.waits) >= k
                  /\ member.attempt > k \/ (member.loop = "sleeping" /\ Sleeping(s, i, k))

C14_Witness ==
    \E s \in Created : \E i \in DOMAIN task[s].members :
        LET member == task[s].members[i] IN
        /\ Len(member.thrown) = 2
        /\ member.thrown[1] = [message |-> <<"bad", "request">>, code |-> "E400", retryable |-> "true"]
        /\ member.thrown[2] = [message |-> <<"UNAVAILABLE">>, code |-> "ECONNRESET", retryable |-> "false"]
        /\ member.attempt = 2
        /\ member.st = "settled"

(* C15: a region whose vision call fails twice with RESOURCE_EXHAUSTED and *)
(* succeeds at the third attempt before the outer timeout has a result     *)
(* without error whose text is the third call's output; the observer was   *)
(* called twice, with 1 then 2; and the observer's k-th call comes with    *)
(* the k-th wait, after the k-th attempt and before the next.              *)
C15_ThirdAttemptSucceeds ==
    \A s \in Created : \A i \in DOMAIN task[s].members :
        LET member == task[s].members[i] IN
        /\ member.observed = [k \in 1..Len(member.observed) |-> k]
        /\ Len(member.waits) = Len(member.observed)
        /\ member.loop = "sleeping" =>
              Len(member.observed) = member.attempt /\ Sleeping(s, i, member.attempt)
        /\ member.loop = "calling" => Len(member.observed) = member.attempt - 1
        /\ ( /\ Len(member.thrown) = 2
             /\ \A k \in 1..2 : Includes(member.thrown[k].message, "RESOURCE_EXHAUSTED")
             /\ member.cause = "resolved" ) =>
                /\ member.attempt = 3
                /\ member.observed = <<1, 2>>
                /\ member.result[1].error = <<>>
                /\ member.result[1].text = <<3>>
                /\ \A j \in DOMAIN heap[s].results :
                      heap[s].results[j].regionId = member.result[1].regionId =>
                          heap[s].results[j] = member.result[1]

C15_Witness ==
    \E s \in Created : \E i \in DOMAIN task[s].members :
        LET member == task[s].members[i] IN
        /\ heap[s].status = "completed"
        /\ Len(member.thrown) = 2
        /\ member.cause = "resolved"
        /\ member.attempt = 3
        /\ now = 6000

(* C16: for an image with readable dimensions validateRegions returns, in *)
(* region order, one error per violated condition (negative coordinates,   *)
(* beyond the width, beyond the height, too small), of all regions; valid  *)
(* exactly when there is no error; no error for a region inside the image  *)
(* that is at least 10 by 10.                                              *)
RECURSIVE Flatten(_)
Flatten(seqs) == IF seqs = <<>> THEN <<>> ELSE Head(seqs) \o Flatten(Tail(seqs))

Violations(metadata, region) ==
    LET conditions ==
            <<[holds |-> region.x < 0 \/ region.y < 0, what |-> "has negative coordinates"],
              [holds |-> region.x + region.width > metadata.width,
               what |-> "extends beyond image width"],
              [holds |-> region.y + region.height > metadata.height,
               what |-> "extends beyond image height"],
              [holds |-> region.width < 10 \/ region.height < 10,
               what |-> "is too small (minimum 10x10 pixels)"]>>
        violated == SelectSeq(conditions, LAMBDA c : c.holds)
    IN  [j \in 1..Len(violated) |-> [region |-> region.id, what |-> violated[j].what]]

Inside(metadata, region) ==
    /\ region.x >= 0 /\ region.y >= 0
    /\ region.x + region.width <= metadata.width
    /\ region.y + region.height <= metadata.height
    /\ region.width >= 10 /\ region.height >= 10

C16_AllViolationsReported ==
    \A s \in Created :
        (task[s].validation # <<>> /\ task[s].validation[1].metadata.ok
            /\ task[s].validation[1].metadata.width > 0
            /\ task[s].validation[1].metadata.height > 0) =>
            LET metadata == task[s].validation[1].metadata
                returned == task[s].validation[1].returned
                regions == heap[s].regions
            IN  /\ returned.errors =
                      Flatten([k \in 1..Len(regions) |-> Violations(metadata, regions[k])])
                /\ returned.valid = (returned.errors = <<>>)
                /\ \A k \in DOMAIN regions :
                      Inside(metadata, regions[k]) =>
                          \A j \in DOMAIN returned.errors : returned.errors[j].region # regions[k].id
                /\ returned.valid <=> task[s].pc = "crop"

C16_Witness ==
    \E s \in Created :
        /\ task[s].validation # <<>>
        /\ task[s].validation[1].metadata.width = 100
        /\ Len(heap[s].regions) = 2
        /\ heap[s].regions[1].x = -1 /\ heap[s].regions[1].width = 9
        /\ heap[s].regions[2].x = 90 /\ heap[s].regions[2].width = 10
        /\ heap[s].regions[2].y = 0 /\ heap[s].regions[2].height = 10
        /\ Len(task[s].validation[1].returned.errors) = 2

(* C17: when the enhancement of a region fails, the original bytes go to   *)
(* the vision call: the call is made, the session is not failed, and the   *)
(* region has an error entry only if its vision call was rejected or timed *)
(* out.                                                                    *)
C17_EnhancementIsBestEffort ==
    \A s \in Created : \A i \in DOMAIN task[s].members :
        LET member == task[s].members[i] IN
        member.image = "original" =>
            /\ member.attempt >= 1
            /\ member.st \in {"awaiting", "settled"}
            /\ heap[s].status # "failed"
            /\ task[s].fault = "none"
            /\ member.st = "settled" =>
                  /\ member.cause = "resolved" =>
                        member.result[1].error = <<>> /\ member.result[1].text = <<member.attempt>>
                  /\ member.result[1].error # <<>> =>
                        \/ member.cause = "timeout"
                        \/ member.cause = "rejected" /\ member.thrown # <<>>

C17_Witness ==
    \E s \in Created : \E i \in DOMAIN task[s].members :
        /\ task[s].members[i].image = "original"
        /\ task[s].members[i].cause = "resolved"
        /\ heap[s].status = "completed"
        /\ heap[s].results[1].error = <<>>

C19_Partition ==
    \A s \in Created :
        LET n == Len(task[s].processedRegions)
            k == concurrencyLimit
            batches == task[s].batches
        IN  (n >= 1 /\ k >= 1) =>
                /\ Len(batches) = (n + k - 1) \div k
                /\ Flatten(batches) = task[s].processedRegions
                /\ \A b \in 1..(Len(batches) - 1) : Len(batches[b]) = k
                /\ Len(batches[Len(batches)]) \in 1..k
                /\ (n = 7 /\ k = 3) =>
                      [b \in DOMAIN batches |-> Len(batches[b])] = <<3, 3, 1>>

C19_Witness ==
    \E s \in Created :
        /\ concurrencyLimit = 3
        /\ Len(task[s].processedRegions) = 7
        /\ [b \in DOMAIN task[s].batches |-> Len(task[s].batches[b])] = <<3, 3, 1>>
        /\ task[s].bi = 1

(* C20: calculateBackoffDelay(attempt) is 2000 * 2^(attempt-1) capped at   *)
(* 10000, so 10000 from attempt 4 on; a retry loop whose attempts all fail *)
(* retryably waits 2000, then 4000, and does not wait after its third      *)
(* attempt.                                                                *)
C20_BackoffDelays ==
    /\ \A attempt \in 1..MaxAttemptNumber :
          /\ CalculateBackoffDelay(attempt) =
                IF 2000 * 2^(attempt - 1) > 10000 THEN 10000 ELSE 2000 * 2^(attempt - 1)
          /\ attempt >= 4 => CalculateBackoffDelay(attempt) = 10000
    /\ \A s \in Created : \A i \in DOMAIN task[s].members :
          LET member == task[s].members[i] IN
          /\ member.waits \in {<<>>, <<2000>>, <<2000, 4000>>}
          /\ \A k \in DOMAIN timers :
                (timers[k].kind = "sleep" /\ timers[k].s = s /\ timers[k].i = i) =>
                    /\ timers[k].att = Len(member.waits)
                    /\ timers[k].due - now <= member.waits[timers[k].att]
          /\ (Len(member.thrown) = 3 /\ \A k \in 1..3 : member.thrown[k].retryable = "true") =>
                /\ member.waits = <<2000, 4000>>
                /\ member.loop = "done"
                /\ ~\E a \in 1..3 : Sleeping(s, i, a)

C20_Witness ==
    \E s \in Created : \E i \in DOMAIN task[s].members :
        LET member == task[s].members[i] IN
        /\ Len(member.thrown) = 3
        /\ \A k \in 1..3 : member.thrown[k].retryable = "true"
        /\ member.waits = <<2000, 4000>>
        /\ member.cause = "rejected"
        /\ now = 6000

(* C21: retryWithBackoff calls the operation between 1 and maxAttempts     *)
(* times; it calls again only after a retryable failure; once its promise  *)
(* has settled it calls no more; when it gives up it rejects with the      *)
(* error of the last call; the observer is called for every failure but    *)
(* the final one, with 1, 2, ... in that order.                            *)
C21_AttemptsBounded ==
    \A s \in Created : \A i \in DOMAIN task[s].members :
        LET member == task[s].members[i]
            failures == Len(member.thrown)
            gaveUp == member.outcome # <<>> /\ member.outcome[1].rejected
        IN  /\ member.attempt <= MaxAttempts
            /\ member.loop # "none" => member.attempt >= 1
            /\ failures \in {member.attempt - 1, member.attempt} \cap 0..MaxAttempts
            /\ \A k \in 1..failures : k < member.attempt => IsRetryableError(member.thrown[k])
            /\ member.outcome # <<>> <=> member.loop = "done"
            /\ (member.outcome # <<>> /\ ~member.outcome[1].rejected) =>
                  failures = member.attempt - 1 /\ member.outcome[1].with = <<member.attempt>>
            /\ gaveUp =>
                  /\ failures = member.attempt
                  /\ member.outcome[1].with = member.thrown[failures]
                  /\ member.attempt = MaxAttempts \/ ~IsRetryableError(member.thrown[failures])
            /\ member.observed =
                  [k \in 1..(IF gaveUp THEN failures - 1 ELSE failures) |-> k]
            /\ member.loop = "sleeping" => failures = member.attempt

C21_Witness ==
    \E s \in Created : \E i \in DOMAIN task[s].members :
        LET member == task[s].members[i] IN
        /\ member.attempt = MaxAttempts
        /\ member.outcome # <<>> /\ member.outcome[1].rejected
        /\ member.outcome[1].with =
              [message |-> <<"bad", "request">>, code |-> "ECONNRESET", retryable |-> "absent"]
        /\ member.observed = <<1, 2>>

(* When the timer of withTimeout for member i of session s is due, in the *)
(* list of timers ts.                                                      *)
Deadline(ts, s, i) ==
    {ts[k].due : k \in {j \in DOMAIN ts : ts[j].kind = "timeout" /\ ts[j].s = s /\ ts[j].i = i}}

(* C22: the outer timer of a region is armed when its first attempt        *)
(* starts, for the configured timeout, and is never moved by a retry; when *)
(* it expires during a later attempt or a backoff wait the member settles  *)
(* in that step with code TIMEOUT while the retry loop stays as it was,    *)
(* and a batch whose other members are settled is pushed and followed by   *)
(* the next batch or by completion in that same step.                      *)
C22_DeadlineSettles ==
    [][\A s \in Created : \A i \in DOMAIN task[s].members :
          LET t == task[s]
              before == t.members[i]
              after == task'[s].members[i]
              batch == t.batches[t.bi]
          IN  /\ (before.attempt = 0 /\ after.attempt = 1) =>
                    Deadline(timers', s, i) = {now' + ApiTimeout}
              /\ (Deadline(timers, s, i) # {} /\ Deadline(timers', s, i) # {}) =>
                    Deadline(timers', s, i) = Deadline(timers, s, i)
              /\ (before.cause = "none" /\ after.cause = "timeout") =>
                    /\ Deadline(timers, s, i) = {now'}
                    /\ Deadline(timers', s, i) = {}
                    /\ \/ before.loop = "calling" /\ before.attempt >= 2
                       \/ before.loop = "sleeping" /\ before.attempt >= 1
                    /\ after.loop = before.loop
                    /\ after.attempt = before.attempt
                    /\ after.st = "settled"
                    /\ after.result[1].error # <<>>
                    /\ after.result[1].error[1].code = "TIMEOUT"
                    /\ (\A j \in 1..Len(batch) :
                            batch[j].imageBuffer # i => t.members[batch[j].imageBuffer].st = "settled")
                          => /\ Len(heap'[s].results) = Len(heap[s].results) + Len(batch)
                             /\ IF t.bi = Len(t.batches)
                                THEN heap'[s].status = "completed"
                                ELSE /\ task'[s].bi = t.bi + 1
                                     /\ \A j \in 1..Len(t.batches[t.bi + 1]) :
                                           task'[s].members[t.batches[t.bi + 1][j].imageBuffer].st
                                               = "optimizing"]_vars

C22_Witness ==
    \E s \in Created :
        /\ Len(task[s].batches) = 2
        /\ task[s].members[1].cause = "timeout"
        /\ task[s].members[1].loop = "calling"
        /\ task[s].members[1].attempt = 2
        /\ [s |-> s, i |-> 1, att |-> 2] \in inflight
        /\ task[s].members[2].loop = "calling"
        /\ heap[s].results[1].error[1].code = "TIMEOUT"

(* C23: whatever the underlying error of the backend call, the error       *)
(* GeminiService.processOCR throws has a boolean retryable, true exactly   *)
(* when the underlying message contains one of its four markers, and the   *)
(* underlying code or GEMINI_ERROR.                                        *)
C23_RetryableBoolean ==
    [][\A c \in inflight : \A err \in UnderlyingErrors :
          (CallPending(World, c) /\ BackendAnswer(c, <<err>>)) =>
              LET thrown == task'[c.s].members[c.i].thrown
                  error == thrown[Len(thrown)]
              IN  /\ error.retryable \in {"true", "false"}
                  /\ error.retryable = "true" <=>
                        \E m \in GeminiRetryableErrors : m \in Range(err.message)
                  /\ error.code = IF err.code # "" THEN err.code ELSE "GEMINI_ERROR"]_vars

(* C27: a failure of the vision call with a message is followed by a retry *)
(* exactly when the message contains one of the four markers of            *)
(* GeminiService (and an attempt remains); a message with ECONNRESET,      *)
(* ETIMEDOUT or ENOTFOUND only is not; without a message the code decides, *)
(* by the list of the backoff utility; the request timeout of              *)
(* GeminiService is not retried.                                           *)
C27_VisionMarkersDecide ==
    [][/\ \A c \in inflight : \A err \in UnderlyingErrors :
             (CallPending(World, c) /\ BackendAnswer(c, <<err>>)) =>
                 LET before == task[c.s].members[c.i]
                     after == task'[c.s].members[c.i]
                     retried == /\ after.loop = "sleeping"
                                /\ after.observed = Append(before.observed, c.att)
                                /\ \E k \in DOMAIN timers' :
                                      timers'[k] = [kind |-> "sleep", s |-> c.s, i |-> c.i, att |-> c.att,
                                                    due |-> now' + CalculateBackoffDelay(c.att)]
                     givesUp == after.loop = "done" /\ after.observed = before.observed
                 IN  /\ retried \/ givesUp
                     /\ err.message # <<>> =>
                           (retried <=> /\ c.att < MaxAttempts
                                        /\ \E m \in GeminiRetryableErrors : m \in Range(err.message))
                     /\ err.message = <<>> =>
                           (retried <=> c.att < MaxAttempts /\ err.code \in RetryableErrors)
       /\ \A s \in Created : \A i \in DOMAIN task[s].members :
             LET before == task[s].members[i]
                 after == task'[s].members[i]
             IN  (/\ Len(after.thrown) = Len(before.thrown) + 1
                  /\ after.thrown[Len(after.thrown)].message = RequestTimeoutError.message)
                     => after.loop = "done" /\ after.observed = before.observed]_vars

C27_Witness ==
    \E s \in Created : \E i \in DOMAIN task[s].members :
        LET member == task[s].members[i] IN
        /\ Len(member.thrown) = 2
        /\ member.thrown[1].message = <<"Failed to process image with Gemini">>
        /\ member.thrown[1].code = "ECONNRESET"
        /\ member.thrown[2].message = <<"read", "ETIMEDOUT">>
        /\ member.attempt = 2
        /\ member.loop = "done"
        /\ member.observed = <<1>>

(* C24: in every state the region ids of a session's results are a prefix *)
(* of the ids of the regions submitted, whatever the order in which the    *)
(* regions of a batch finished; for a completed session they are all the   *)
(* ids.                                                                    *)
C24_ResultsInSubmissionOrder ==
    \A s \in Created :
        LET submitted == Ids(heap[s].regions)
            recorded == [k \in 1..Len(heap[s].results) |-> heap[s].results[k].regionId]
        IN  /\ Len(recorded) <= Len(submitted)
            /\ recorded = SubSeq(submitted, 1, Len(recorded))
            /\ heap[s].status = "completed" => recorded = submitted

C24_Witness ==
    \E s \in Created :
        /\ Len(task[s].batches) = 1
        /\ Len(task[s].members) = 2
        /\ Len(heap[s].results) = 2
        /\ task[s].members[1].cause = "timeout"
        /\ task[s].members[2].cause = "resolved"
        /\ task[s].members[2].attempt = 1
        /\ heap[s].status = "completed"
        /\ heap[s].results[1].regionId = heap[s].regions[1].id
        /\ heap[s].results[2].regionId = heap[s].regions[2].id
        /\ heap[s].results[1].error # <<>>
        /\ heap[s].results[2].error = <<>>

(* C25: whenever the status of a session is asked, progress.current is     *)
(* min(j * k, n) for some j >= 0, with k the concurrency limit and n the   *)
(* number of regions: the results of a batch appear together.              *)
C25_ProgressInBatches ==
    \A s \in sessions :
        LET n == Len(heap[s].regions)
        IN  StatusOf(s).progress.current \in {Min(j * concurrencyLimit, n) : j \in 0..n}

C25_Witness ==
    \E s \in sessions :
        /\ concurrencyLimit = 2
        /\ Len(heap[s].regions) = 2
        /\ Len(task[s].members) = 2
        /\ task[s].members[1].st = "awaiting"
        /\ task[s].members[2].st = "settled"
        /\ StatusOf(s).progress.current = 0
        /\ StatusOf(s).status = "processing"

(* C26: no status answer has progress.current equal to progress.total      *)
(* together with status processing; completedAt is set exactly when the    *)
(* status is completed or failed.                                          *)
C26_FullMeansTerminal ==
    /\ \A s \in sessions :
          StatusOf(s).progress.current = StatusOf(s).progress.total
              => StatusOf(s).status # "processing"
    /\ \A s \in Created :
          /\ heap[s].completedAt # -1 <=> heap[s].status \in Terminal
          /\ Len(heap[s].results) = Len(heap[s].regions) => heap[s].status # "processing"

C26_Witness ==
    \E s \in sessions :
        /\ Len(heap[s].regions) = 2
        /\ StatusOf(s).progress = [current |-> 2, total |-> 2]
        /\ StatusOf(s).status = "completed"
        /\ heap[s].completedAt = now
        /\ now > 0

(* C28: while the first attempt is unanswered the member stays awaiting:   *)
(* the timer of GeminiService, armed before the timer of withTimeout for   *)
(* the same duration, runs first, and the region is recorded with the      *)
(* message 'Request timeout after 30000ms', code GEMINI_ERROR, and no      *)
(* retry is made; code TIMEOUT is recorded only when the outer timer       *)
(* settled the member, after a retryable failure of an earlier attempt.    *)
C28_InnerTimerFirst ==
    \A s \in Created : \A i \in DOMAIN task[s].members :
        LET member == task[s].members[i]
            timedOut == /\ member.thrown # <<>>
                        /\ member.thrown[1].message = RequestTimeoutError.message
        IN  /\ (member.attempt = 1 /\ member.loop = "calling") =>
                  /\ member.st = "awaiting"
                  /\ \E j, k \in DOMAIN timers :
                        /\ j < k
                        /\ timers[j] = [kind |-> "request", s |-> s, i |-> i, att |-> 1,
                                        due |-> timers[k].due]
                        /\ timers[k].kind = "timeout" /\ timers[k].s = s /\ timers[k].i = i
            /\ timedOut =>
                  /\ member.attempt = 1
                  /\ member.loop = "done"
                  /\ member.observed = <<>>
                  /\ member.st = "settled"
                  /\ member.cause = "rejected"
                  /\ member.result[1].error[1].code = "GEMINI_ERROR"
                  /\ member.result[1].error[1].message = RequestTimeoutError.message
                  /\ member.result[1].error[1].retryable = FALSE
                  /\ \A k \in DOMAIN timers : ~(timers[k].s = s /\ timers[k].i = i)
            /\ (member.result # <<>> /\ member.result[1].error # <<>>
                   /\ member.result[1].error[1].code = "TIMEOUT") =>
                  /\ member.cause = "timeout"
                  /\ member.attempt >= 1
                  /\ member.thrown # <<>>
                  /\ IsRetryableError(member.thrown[1])
                  /\ member.thrown[1].retryable = "true"

C28_Witness ==
    \E s \in Created : \E i \in DOMAIN task[s].members :
        LET member == task[s].members[i] IN
        /\ member.thrown = <<GeminiCatch(RequestTimeoutError)>>
        /\ member.attempt = 1
        /\ member.st = "settled"
        /\ member.result[1].error[1].code = "GEMINI_ERROR"
        /\ now = ApiTimeout

(* C29: with a concurrency limit of 0 or less, once validation and        *)
(* cropping have succeeded the split loop is entered and its condition     *)
(* holds after every iteration, so it never ends: no vision call is made,  *)
(* no result is appended, the session stays processing with no             *)
(* completedAt.                                                            *)
C29_SplitNeverEnds ==
    \A s \in Created :
        (concurrencyLimit <= 0 /\ task[s].processedRegions # <<>>) =>
            /\ task[s].pc = "split"
            /\ task[s].i < Len(task[s].processedRegions)
            /\ task[s].i = Len(task[s].batches) * concurrencyLimit
            /\ NoVisionCall(s)
            /\ heap[s].results = <<>>
            /\ heap[s].status = "processing"
            /\ heap[s].completedAt = -1

C29_Witness ==
    \E s \in Created :
        /\ concurrencyLimit = -1
        /\ Len(heap[s].regions) = 2
        /\ task[s].pc = "split"
        /\ task[s].i = -3
        /\ task[s].batches = <<<<task[s].processedRegions[1]>>, <<>>, <<>>>>

====
